---- MODULE Spec2Model ----
(***************************************************************************)
(* A model of servicex_client's job synchronisation orchestrator:          *)
(* ServiceXDatasetSourceBase.submit_and_download and the two tasks it      *)
(* starts, transform_status_listener (the status monitor) and              *)
(* download_files (the result drain), with the per-object fetch tasks the  *)
(* drain fans out, as scheduled by one asyncio event loop.                 *)
(*                                                                         *)
(* One dataset object is modelled.  Its fields (result_format,             *)
(* current_status, download_path, minio, request_id) live as long as the   *)
(* object and are carried from one submit_and_download call to the next.   *)
(* Every step between two awaits of a coroutine is one atomic action, as   *)
(* it is under asyncio's cooperative scheduling.                           *)
(*                                                                         *)
(* The control plane (ServiceXAdapter), the object store (MinioAdapter as  *)
(* the orchestrator uses it: for_transform, list_bucket yielding objects   *)
(* with a filename, download_file, get_signed_url) and the QueryCache are  *)
(* collaborators whose code is not part of the orchestrator; they are      *)
(* modelled by their interface.                                            *)
(*                                                                         *)
(* Specifications:                                                         *)
(*   Spec, FairSpec  up to MaxCalls calls; every status carries the        *)
(*                   storage parameters and no total, and a transform      *)
(*                   that completes has no failed file;                    *)
(*   PartialSpec     Spec with transforms that complete with failed files; *)
(*   StatusSpec      one call, against a backend that provisions storage   *)
(*                   and discovers the dataset while the job runs;         *)
(*   HashSpec        compute_hash on pairs of requests;                    *)
(*   CacheSpec       the QueryCache under records and lookups;             *)
(*   DidSpec         populate_transform_request of the dataset             *)
(*                   identifiers;                                          *)
(*   CompileSpec     generate_qastle on terminal calls;                    *)
(*   CloneSpec       clone_with_new_ast, changes to the clones and         *)
(*                   records written through their caches;                 *)
(*   ClientSpec      the constructor of ServiceXClient.                    *)
(***************************************************************************)
EXTENDS Integers, Sequences, FiniteSets, TLC

\* ------------------------------------------------------------------ bounds

\* Number of submit_and_download calls made through the dataset object.
MaxCalls == 2
\* Number of distinct result objects a job's bucket can hold.
MaxObjects == 2
\* Longest bucket listing (a listing may repeat a name).
MaxListLen == 3
\* Largest total file count the control plane reports for a job.
MaxFiles == 2
\* Largest failed-file count the control plane reports for a job.
MaxFailed == 1
\* Number of populate_transform_request calls made on one request.
MaxPopulates == 2
\* Largest number of column names a terminal call gives.
MaxColumns == 2
\* Largest number of clones taken of a dataset object.
MaxClones == 1

Objects == 1..MaxObjects
Jobs == 1..MaxCalls

\* Python's None: for a job id, a directory or an adapter (all named by a job
\* id, which is positive), for a result format, for a status and for a cache
\* record.
NoJob == 0
None == "None"
NoStatus == [request_id |-> NoJob, status |-> None, files |-> 0, files_failed |-> 0,
             storage |-> FALSE]
NoRecord == [request_id |-> NoJob, data_dir |-> NoJob, file_uris |-> <<>>,
             files_failed |-> 0]

\* ------------------------------------------------------------------ state

VARIABLES
    \* fields of the dataset object (__init__, lines 86-95)
    result_format,          \* None | "parquet" | "root-file"
    current_status,         \* NoStatus | the last polled TransformStatus
    download_path,          \* NoJob | the job whose cache directory it is
    minio,                  \* NoJob | the job whose bucket the adapter is bound to
    request_id,             \* NoJob | the job id of the last submit
    \* collaborators
    cache,                  \* QueryCache: hash -> NoRecord | record
    jobPhase,               \* control plane: job -> "unsubmitted" | phase
    bucket,                 \* object store: job -> set of object names
    jobInfo,                \* control plane: job -> the counts and the storage
                            \* parameters its status carries
    \* the running call of submit_and_download
    callPc,                 \* "idle" | "awaiting" | "ended"
    call,                   \* the call's request hash, mode and bookkeeping
    outcome,                \* what the call handed to its caller
    nCalls,
    \* the monitor task, its local and its done callback
    monPc,
    final_count,            \* 0 (None) | the total the progress bars were sized with
    \* the drain task and its locals
    drainPc,
    files_seen,
    download_tasks,
    downloaded_file_paths,
    listing,                \* the bucket contents a pending list_bucket answers with
    \* bookkeeping of what happened
    net,                    \* network operations of the current submission
    relisted,               \* a listing named an object that was already seen
    returned,               \* hash -> <<>> | <<the list the first successful call returned>>
    progress_totals,        \* the totals handed to progress.update(..., total=), in order
    \* fixed for the dataset object
    compilable,             \* generate_qastle compiles the object's query
    \* the pure functions checked on their own
    input,
    output

objVars == <<result_format, current_status, download_path, minio, request_id>>
envVars == <<cache, jobPhase, bucket, jobInfo>>
callVars == <<callPc, call, outcome, nCalls>>
drainVars == <<drainPc, files_seen, download_tasks, downloaded_file_paths, listing>>
logVars == <<net, relisted, returned>>
monVars == <<final_count, progress_totals>>
fixedVars == <<compilable, input, output>>
vars == <<objVars, envVars, callVars, monPc, monVars, drainVars, logVars, fixedVars>>

\* ------------------------------------------------------- pure definitions

ResultFormats == {"parquet", "root-file"}

\* The entry points through which a caller reaches submit_and_download, with
\* the result format each sets (None: left as it is) and its signed_urls_only.
EntryPoints == {"as_parquet_files", "as_root_files", "as_signed_urls", "submit_and_download"}

as_parquet_files == [fmt |-> "parquet", signed |-> FALSE]
as_root_files == [fmt |-> "root-file", signed |-> FALSE]
as_signed_urls == [fmt |-> None, signed |-> TRUE]
submit_and_download_direct == [fmt |-> None, signed |-> FALSE]

EntryPoint(ep) ==
    CASE ep = "as_parquet_files" -> as_parquet_files
      [] ep = "as_root_files" -> as_root_files
      [] ep = "as_signed_urls" -> as_signed_urls
      [] OTHER -> submit_and_download_direct

\* transform_request: the request built from the object's fields.  The title,
\* the code generator, the dataset and the query are fixed for the object.
transform_request(fmt) ==
    [title |-> "ServiceX Client", codegen |-> "uproot", did |-> "did",
     selection |-> "query", result_format |-> fmt]

\* The requests compute_hash is checked on: every field takes two values.
Titles == {"ServiceX Client", "Test submission"}
Codegens == {"uproot", "python"}
Dids == {"rucio://foo.bar", "rucio://baz.bar"}
Selections == {"(call EventDataset)", "(call Select (call EventDataset))"}
Requests ==
    [title : Titles, codegen : Codegens, did : Dids, selection : Selections,
     result_format : ResultFormats]

\* A hash that takes the title in.
compute_hash_with_title(req) ==
    <<req.title, req.codegen, req.did, req.selection, req.result_format>>

\* TransformRequest.compute_hash: over every field but the title.
compute_hash(req) == <<req.codegen, req.did, req.selection, req.result_format>>

Hashes == {compute_hash(transform_request(f)) : f \in ResultFormats}

\* QueryCache.get_transform_by_hash / cache_transform / cache_path_for_transform.
get_transform_by_hash(c, h) == c[h]

\* A cache that drops what it is given.
cache_transform_dropped(c, h, status, data_dir, file_uris) == c

cache_transform(c, h, status, data_dir, file_uris) ==
    [c EXCEPT ![h] = [request_id |-> status.request_id, data_dir |-> data_dir,
                      file_uris |-> file_uris, files_failed |-> status.files_failed]]

cache_path_for_transform(s) == s.request_id

\* MinioAdapter.for_transform: the adapter for the bucket named by the status's
\* request id.
for_transform(s) == s.request_id

\* What a fetch task appends: the path under the download directory, or the
\* signed URL of the object in the adapter's bucket.
DownloadedPath(dir, name) == <<"path", dir, name>>
SignedUrl(bkt, name) == <<"url", bkt, name>>

Range(s) == {s[i] : i \in 1..Len(s)}

SeqsUpTo(S, n) == UNION {[1..k -> S] : k \in 0..n}

\* The answers list_bucket can give for bucket contents B, as the drain reads
\* them (an object per entry, with its filename): every object of B, in any
\* order, a name possibly repeated.  An adapter whose list_bucket answers with
\* the empty list whatever the bucket holds behaves, for the drain, like a
\* bucket that stays empty.
Listings(B) == {s \in SeqsUpTo(B, MaxListLen) : Range(s) = B}

\* ------------------------------------------------ submit_and_download

NoCall == [hash |-> compute_hash(transform_request(None)), signed |-> FALSE,
           looked |-> FALSE, hit |-> FALSE, prior |-> FALSE, submitted |-> FALSE,
           wrote |-> FALSE]

NoOutcome == [kind |-> "none", files |-> <<>>]
Raised(kind) == [kind |-> kind, files |-> <<>>]
ReturnedList(files) == [kind |-> "list", files |-> files]
ReturnedNone == [kind |-> "aborted", files |-> <<>>]

\* The job id the control plane gives the next accepted request.
NextJob == CHOOSE j \in Jobs : jobPhase[j] = "unsubmitted" /\ \A k \in 1..(j - 1) : jobPhase[k] # "unsubmitted"

\* A lookup whose record is never taken for a hit.
CachedRecordFound_never(rec) == FALSE

\* `if cached_record:` (line 177)
CachedRecordFound(rec) == rec # NoRecord

\* A call that has created its drain task before it returns or raises.
NoTasks_drain_started ==
    /\ monPc' = "idle"
    /\ drainPc' = "sleeping"
    /\ files_seen' = {}
    /\ download_tasks' = <<>>
    /\ downloaded_file_paths' = <<>>
    /\ listing' = {}
    /\ relisted' = FALSE
    /\ final_count' = 0
    /\ progress_totals' = <<>>

\* The tasks of a call that has not started any.
NoTasks ==
    /\ monPc' = "idle"
    /\ drainPc' = "idle"
    /\ files_seen' = {}
    /\ download_tasks' = <<>>
    /\ downloaded_file_paths' = <<>>
    /\ listing' = {}
    /\ relisted' = FALSE
    /\ final_count' = 0
    /\ progress_totals' = <<>>

\* A request whose query is compiled only when it is sent.
BuildFailure_format_only(fmt) == IF fmt = None THEN "build_error" ELSE "ok"

\* transform_request (lines 124-138): without a result format it raises
\* ValueError (lines 126-127); generate_qastle raises for a query it cannot
\* compile (line 134); otherwise the request is built.
BuildFailure(fmt) ==
    IF fmt = None THEN "build_error"
    ELSE IF ~compilable THEN "compile_error"
    ELSE "ok"

\* A call of submit_and_download through entry point ep, up to its first
\* await of the drain task: the request is built, the cache is consulted, and
\* on a miss the request is submitted and the two tasks are created.  A call
\* starts when the previous one has ended; whatever tasks the previous call
\* left behind end with the event loop that ran it (asyncio.run per call).
submit_and_download(ep) ==
    /\ callPc \in {"idle", "ended"}
    /\ nCalls < MaxCalls
    /\ nCalls' = nCalls + 1
    /\ LET e == EntryPoint(ep)
           fmt == IF e.fmt = None THEN result_format ELSE e.fmt
           h == compute_hash(transform_request(fmt))
       IN /\ result_format' = fmt
          /\ IF BuildFailure(fmt) # "ok"
               THEN \* line 172: transform_request raises
                    /\ call' = [NoCall EXCEPT !.signed = e.signed]
                    /\ outcome' = Raised(BuildFailure(fmt))
                    /\ callPc' = "ended"
                    /\ net' = {}
                    /\ NoTasks
                    /\ UNCHANGED <<current_status, download_path, minio, request_id,
                                   envVars, returned>>
               ELSE IF CachedRecordFound(get_transform_by_hash(cache, h))
               THEN \* lines 177-179
                    /\ call' = [NoCall EXCEPT !.hash = h, !.signed = e.signed,
                                              !.looked = TRUE,
                                              !.hit = (cache[h] # NoRecord),
                                              !.prior = (returned[h] # <<>>)]
                    /\ outcome' = ReturnedList(get_transform_by_hash(cache, h).file_uris)
                    /\ callPc' = "ended"
                    /\ net' = {}
                    /\ NoTasks
                    /\ UNCHANGED <<current_status, download_path, minio, request_id,
                                   envVars, returned>>
               ELSE \* line 192: the submit is accepted, or it raises
                    /\ net' = {"submit"}
                    /\ call' = [NoCall EXCEPT !.hash = h, !.signed = e.signed,
                                              !.looked = TRUE,
                                              !.hit = (cache[h] # NoRecord),
                                              !.prior = (returned[h] # <<>>),
                                              !.submitted = TRUE]
                    /\ \/ /\ outcome' = Raised("submit_error")
                          /\ callPc' = "ended"
                          /\ NoTasks
                          /\ UNCHANGED <<current_status, download_path, minio,
                                         request_id, envVars, returned>>
                       \/ /\ request_id' = NextJob
                          /\ jobPhase' = [jobPhase EXCEPT ![NextJob] = "running"]
                          /\ outcome' = NoOutcome
                          /\ callPc' = "awaiting"
                          \* lines 194-198: both tasks run to their first await
                          /\ monPc' = "polling"
                          /\ drainPc' = "sleeping"
                          /\ files_seen' = {}
                          /\ download_tasks' = <<>>
                          /\ downloaded_file_paths' = <<>>
                          /\ listing' = {}
                          /\ relisted' = FALSE
                          \* line 222, and the Progress of this call (line 181)
                          /\ final_count' = 0
                          /\ progress_totals' = <<>>
                          /\ UNCHANGED <<current_status, download_path, minio,
                                         cache, bucket, jobInfo, returned>>
    /\ UNCHANGED fixedVars

\* A handler that returns what was downloaded so far.
AbortOutcome_partial(files) == ReturnedList(files)

\* What the call hands its caller when awaiting the drain task raised
\* CancelledError (lines 208-209): the handler prints and the function falls
\* off its end.
AbortOutcome(files) == ReturnedNone

\* A completed download that is not recorded.
CacheAfterDownload_skipped(c, h, status, dir, files) == c

\* A download that is recorded only when no file of the transform failed.
CacheAfterDownload_clean_only(c, h, status, dir, files) ==
    IF status.files_failed > 0 THEN c ELSE cache_transform(c, h, status, dir, files)

\* The cache after a drain that returned files (lines 204-206).
CacheAfterDownload(c, h, status, dir, files) == cache_transform(c, h, status, dir, files)

\* The call resumes from `await download_files_task` (lines 200-209).
submit_and_download_resume ==
    /\ callPc = "awaiting"
    /\ drainPc \in {"returned", "cancelled", "raised"}
    /\ callPc' = "ended"
    /\ \/ /\ drainPc = "returned"
          /\ cache' = CacheAfterDownload(cache, call.hash, current_status,
                                         download_path, downloaded_file_paths)
          /\ call' = [call EXCEPT !.wrote = TRUE]
          /\ outcome' = ReturnedList(downloaded_file_paths)
          /\ returned' = [returned EXCEPT ![call.hash] =
                            IF @ = <<>> THEN <<downloaded_file_paths>> ELSE @]
       \/ /\ drainPc = "cancelled"
          \* rich.print_json is handed a text that is not JSON: the handler
          \* either returns from the print or ends with the error of the print
          /\ \/ outcome' = AbortOutcome(downloaded_file_paths)
             \/ outcome' = Raised("print_error")
          /\ UNCHANGED <<cache, call, returned>>
       \/ /\ drainPc = "raised"
          /\ outcome' = Raised("fetch_error")
          /\ UNCHANGED <<cache, call, returned>>
    /\ UNCHANGED <<objVars, jobPhase, bucket, jobInfo, nCalls, monPc, monVars, drainVars,
                   net, relisted, fixedVars>>

\* ------------------------------------------- transform_status_listener

\* Task.cancel on the drain task (lines 163-164): a task that is not done
\* ends cancelled at its pending await; a done task is left as it is.
DrainPending == {"sleeping", "listing", "gather"}
CancelDrain_omitted(pc) == pc
CancelDrain(pc) == IF pc \in DrainPending THEN "cancelled" ELSE pc

\* Cancelling a task that awaits asyncio.gather cancels the children that
\* have not finished; cancelling it at any other await reaches no child.
CancelChildren(pc, tasks) ==
    IF pc = "gather"
      THEN [i \in 1..Len(tasks) |->
              IF tasks[i].st = "running" THEN [tasks[i] EXCEPT !.st = "cancelled"]
              ELSE tasks[i]]
      ELSE tasks

\* The done callback of the monitor task (lines 154-170), for a task that
\* raised or returned.  The event loop queues it the moment the task ends, so
\* it runs before anything that becomes ready later, and a step that was
\* ready before commutes with the monitor's last step: the callback is taken
\* together with that step.  The exception it raises at line 165 goes to the
\* event loop's exception handler and reaches no coroutine.
transform_complete(raised) ==
    IF raised
      THEN /\ drainPc' = CancelDrain(drainPc)
           /\ download_tasks' = CancelChildren(drainPc, download_tasks)
      ELSE UNCHANGED <<drainPc, download_tasks>>

\* The status the control plane reports for job j.
get_transform_status(j) ==
    [request_id |-> j, status |-> jobPhase[j], files |-> jobInfo[j].files,
     files_failed |-> jobInfo[j].files_failed, storage |-> jobInfo[j].storage]

\* Progress bars that are sized with every known count.
PublishNeeded_always(count, files) == files # 0

\* `if not final_count and self.current_status.files` (line 237)
PublishNeeded(count, files) == count = 0 /\ files # 0

\* `if self.current_status.status == Status.complete` (line 253)
MonitorDone(s) == s.status = "complete"

\* A monitor that sets the download directory from its second poll on.
DownloadPathAfterPoll_late(status, path, s) ==
    IF status # NoStatus THEN cache_path_for_transform(s) ELSE path

\* `if not self.current_status: ... self.download_path = ...` (lines 229-231)
DownloadPathAfterPoll(status, path, s) ==
    IF status = NoStatus THEN cache_path_for_transform(s) ELSE path

\* One poll that returns a status, up to the return or the next sleep
\* (lines 225-258).
\* for_transform is handed whatever the status carries (line 251): from a
\* status without the storage parameters it builds an adapter without an
\* endpoint, or the construction raises and ends the task.
transform_status_listener_poll ==
    /\ monPc = "polling"
    /\ LET s == get_transform_status(request_id)
           publish == PublishNeeded(final_count, s.files)
       IN /\ download_path' = DownloadPathAfterPoll(current_status, download_path, s)
          /\ current_status' = s
          \* lines 237-243
          /\ final_count' = IF publish THEN s.files ELSE final_count
          /\ progress_totals' = IF publish THEN Append(progress_totals, s.files)
                                ELSE progress_totals
          /\ \/ /\ minio' = IF minio = NoJob THEN for_transform(s) ELSE minio
                /\ IF MonitorDone(s)
                     THEN monPc' = "done" /\ transform_complete(FALSE)
                     ELSE monPc' = "sleeping" /\ UNCHANGED <<drainPc, download_tasks>>
             \/ /\ minio = NoJob
                /\ ~s.storage
                /\ minio' = minio
                /\ monPc' = "failed"
                /\ transform_complete(TRUE)
    /\ net' = net \cup {"poll"}
    /\ UNCHANGED <<result_format, request_id, envVars, callVars, files_seen,
                   downloaded_file_paths, listing, relisted, returned, fixedVars>>

\* One poll that raises (line 225): the task ends with the exception.
transform_status_listener_raise ==
    /\ monPc = "polling"
    /\ monPc' = "failed"
    /\ transform_complete(TRUE)
    /\ net' = net \cup {"poll"}
    /\ UNCHANGED <<objVars, envVars, callVars, monVars, files_seen,
                   downloaded_file_paths, listing, relisted, returned, fixedVars>>

\* asyncio.sleep(servicex_polling_interval) is over (line 258).
transform_status_listener_sleep ==
    /\ monPc = "sleeping"
    /\ monPc' = "polling"
    /\ UNCHANGED <<objVars, envVars, callVars, monVars, drainVars, logVars, fixedVars>>

\* ------------------------------------------------------ download_files

\* `if file.filename not in files_seen` (line 285), `files_seen.add` (line 294)
LaunchNeeded(name, seen) == name \notin seen
SeenAfter_forgotten(seen, name) == seen
SeenAfter(seen, name) == seen \cup {name}

\* loop.create_task(get_signed_url(...)) or loop.create_task(download_file(...))
NewTask(name, signed) ==
    [name |-> name, st |-> "running",
     fn |-> IF signed THEN "get_signed_url" ELSE "download_file"]

\* The for loop over one listing (lines 284-294).
RECURSIVE ProcessListing(_, _, _, _)
ProcessListing(files, seen, tasks, signed) ==
    IF files = <<>>
      THEN [seen |-> seen, tasks |-> tasks]
      ELSE IF LaunchNeeded(Head(files), seen)
             THEN ProcessListing(Tail(files), SeenAfter(seen, Head(files)),
                                 Append(tasks, NewTask(Head(files), signed)), signed)
             ELSE ProcessListing(Tail(files), seen, tasks, signed)

\* A listing names an object that was seen before, or names one twice.
Relists(files, seen) ==
    \/ \E i \in 1..Len(files) : files[i] \in seen
    \/ \E j, k \in 1..Len(files) : j < k /\ files[j] = files[k]

\* A drain that never takes the complete status for the end of its loop.
LoopExit_never(s) == FALSE

\* `if self.current_status and self.current_status.status == Status.complete`
\* (line 298)
LoopExit(s) == s # NoStatus /\ s.status = "complete"

\* A drain that returns its list without awaiting its tasks.
AfterLoop_unjoined(tasks) == "returned"

\* After the break: asyncio.gather over no task is done at once, and the
\* drain returns without another await (lines 302-303).
AfterLoop(tasks) == IF tasks = <<>> THEN "returned" ELSE "gather"

\* A drain that clears the status it has acted on.
DrainKeeps_clears ==
    /\ current_status' = NoStatus
    /\ UNCHANGED <<result_format, download_path, minio, request_id>>

\* download_files and the fetch closures assign no field of the dataset
\* object (lines 260-303): they read current_status, minio and download_path.
DrainKeeps == UNCHANGED objVars

\* asyncio.sleep(minio_polling_interval) is over: the listing is requested
\* (line 283), or without an adapter the loop goes on to line 298.
download_files_wake ==
    /\ drainPc = "sleeping"
    /\ IF minio # NoJob
         THEN /\ drainPc' = "listing"
              /\ listing' = bucket[minio]
              /\ net' = net \cup {"list"}
         ELSE /\ drainPc' = IF LoopExit(current_status)
                              THEN AfterLoop(download_tasks) ELSE "sleeping"
              /\ UNCHANGED <<listing, net>>
    /\ DrainKeeps
    /\ UNCHANGED <<envVars, callVars, monPc, monVars, files_seen, download_tasks,
                   downloaded_file_paths, relisted, returned, fixedVars>>

\* list_bucket answers: the new objects get their fetch tasks, then the
\* status decides whether the loop ends (lines 283-299).
download_files_listed ==
    /\ drainPc = "listing"
    /\ \E files \in Listings(listing) :
         LET r == ProcessListing(files, files_seen, download_tasks, call.signed)
         IN /\ files_seen' = r.seen
            /\ download_tasks' = r.tasks
            /\ net' = IF r.tasks # download_tasks THEN net \cup {"fetch"} ELSE net
            /\ relisted' = (relisted \/ Relists(files, files_seen))
            /\ drainPc' = IF LoopExit(current_status) THEN AfterLoop(r.tasks) ELSE "sleeping"
    /\ listing' = {}
    /\ DrainKeeps
    /\ UNCHANGED <<envVars, callVars, monPc, monVars, downloaded_file_paths, returned,
                   fixedVars>>

\* What a finished fetch appends (lines 272 and 277).
FetchResult(t) ==
    IF t.fn = "get_signed_url" THEN SignedUrl(minio, t.name)
    ELSE DownloadedPath(download_path, t.name)

\* A fetch task finishes (download_file, get_signed_url: lines 270-278).
download_file_done(i) ==
    /\ i \in 1..Len(download_tasks)
    /\ download_tasks[i].st = "running"
    /\ download_tasks' = [download_tasks EXCEPT ![i].st = "done"]
    /\ downloaded_file_paths' = Append(downloaded_file_paths, FetchResult(download_tasks[i]))
    /\ DrainKeeps
    /\ UNCHANGED <<envVars, callVars, monPc, monVars, drainPc, files_seen, listing, logVars,
                   fixedVars>>

\* A fetch task raises (lines 271 and 276).
download_file_raise(i) ==
    /\ i \in 1..Len(download_tasks)
    /\ download_tasks[i].st = "running"
    /\ download_tasks' = [download_tasks EXCEPT ![i].st = "failed"]
    /\ DrainKeeps
    /\ UNCHANGED <<envVars, callVars, monPc, monVars, drainPc, files_seen,
                   downloaded_file_paths, listing, logVars, fixedVars>>

\* A gather that collects the exceptions of its tasks instead of raising.
GatherResult_tolerant(tasks) ==
    IF \A i \in 1..Len(tasks) : tasks[i].st \in {"done", "failed"} THEN "returned"
    ELSE "gather"

\* asyncio.gather(*download_tasks) (line 302): it raises the exception of a
\* fetch task that raised, and is done when every fetch task is; until then
\* the drain stays at the await.
GatherResult(tasks) ==
    IF \E i \in 1..Len(tasks) : tasks[i].st = "failed" THEN "raised"
    ELSE IF \A i \in 1..Len(tasks) : tasks[i].st = "done" THEN "returned"
    ELSE "gather"

\* The drain resumes from the gather (lines 302-303).
download_files_gathered ==
    /\ drainPc = "gather"
    /\ GatherResult(download_tasks) # "gather"
    /\ drainPc' = GatherResult(download_tasks)
    /\ DrainKeeps
    /\ UNCHANGED <<envVars, callVars, monPc, monVars, files_seen, download_tasks,
                   downloaded_file_paths, listing, logVars, fixedVars>>

\* -------------------------------------------------------- the backend

\* The transform writes a result object while it runs.  Object names are
\* labels: the k-th object a job writes is named k.  The order in which a
\* listing names them stays free (Listings).
BackendWrite(j, o) ==
    /\ jobPhase[j] = "running"
    /\ o = Cardinality(bucket[j]) + 1
    /\ bucket' = [bucket EXCEPT ![j] = @ \cup {o}]
    /\ UNCHANGED <<objVars, cache, jobPhase, jobInfo, callVars, monPc, monVars, drainVars,
                   logVars, fixedVars>>

\* The transform ends: complete or failed, never back to running.  The
\* orchestrator reads the failed-file count of a complete status only (lines
\* 167 and 255); n is the count the job ends with.
BackendEnd(j, phase, n) ==
    /\ jobPhase[j] = "running"
    /\ jobPhase' = [jobPhase EXCEPT ![j] = phase]
    /\ jobInfo' = [jobInfo EXCEPT ![j].files_failed = n]
    /\ UNCHANGED <<objVars, cache, bucket, callVars, monPc, monVars, drainVars, logVars,
                   fixedVars>>

\* The backend provisions the job's storage: from now on the status carries
\* the object-store connection parameters.
BackendProvision(j) ==
    /\ jobPhase[j] = "running"
    /\ ~jobInfo[j].storage
    /\ jobInfo' = [jobInfo EXCEPT ![j].storage = TRUE]
    /\ UNCHANGED <<objVars, cache, jobPhase, bucket, callVars, monPc, monVars, drainVars,
                   logVars, fixedVars>>

\* Dataset discovery reports a total file count, or a larger one than before.
BackendDiscover(j, n) ==
    /\ jobPhase[j] = "running"
    /\ n > jobInfo[j].files
    /\ jobInfo' = [jobInfo EXCEPT ![j].files = n]
    /\ UNCHANGED <<objVars, cache, jobPhase, bucket, callVars, monPc, monVars, drainVars,
                   logVars, fixedVars>>

\* ------------------------------------------------------ specification

\* The dataset object after __init__ (lines 77-99), with an empty cache and a
\* control plane that has accepted no job.
Constructed ==
    /\ result_format = None
    /\ current_status = NoStatus
    /\ download_path = NoJob
    /\ minio = NoJob
    /\ request_id = NoJob
    /\ cache = [h \in Hashes |-> NoRecord]
    /\ jobPhase = [j \in Jobs |-> "unsubmitted"]
    /\ bucket = [j \in Jobs |-> {}]
    /\ callPc = "idle"
    /\ call = NoCall
    /\ outcome = NoOutcome
    /\ nCalls = 0
    /\ monPc = "idle"
    /\ drainPc = "idle"
    /\ files_seen = {}
    /\ download_tasks = <<>>
    /\ downloaded_file_paths = <<>>
    /\ listing = {}
    /\ net = {}
    /\ relisted = FALSE
    /\ returned = [h \in Hashes |-> <<>>]
    /\ final_count = 0
    /\ progress_totals = <<>>
    /\ compilable \in BOOLEAN

\* What the status of a job carries before the backend has reported anything.
JobInfo(storage) == [storage |-> storage, files |-> 0, files_failed |-> 0]

\* A deployment whose statuses carry the storage parameters from the first
\* poll on and no total file count.
Init ==
    /\ Constructed
    /\ jobInfo = [j \in Jobs |-> JobInfo(TRUE)]
    /\ input = <<>>
    /\ output = <<>>

\* A deployment that provisions storage and discovers the dataset while the
\* job runs.
StatusInit ==
    /\ Constructed
    /\ jobInfo = [j \in Jobs |-> JobInfo(FALSE)]
    /\ input = <<>>
    /\ output = <<>>

Caller == \E ep \in EntryPoints : submit_and_download(ep)
Monitor ==
    \/ transform_status_listener_poll
    \/ transform_status_listener_raise
    \/ transform_status_listener_sleep
Drain ==
    \/ download_files_wake
    \/ download_files_listed
    \/ download_files_gathered
Fetch ==
    \/ \E i \in 1..Len(download_tasks) : download_file_done(i)
    \/ \E i \in 1..Len(download_tasks) : download_file_raise(i)
Backend ==
    \/ \E j \in Jobs, o \in Objects : BackendWrite(j, o)
    \/ \E j \in Jobs : BackendEnd(j, "complete", 0)
    \/ \E j \in Jobs : BackendEnd(j, "failed", 0)
\* A transform completes although some of its files failed.
PartialEnd == \E j \in Jobs, n \in 1..MaxFailed : BackendEnd(j, "complete", n)
\* One submission through the dataset object.
FirstCall == nCalls = 0 /\ Caller
Staging ==
    \/ \E j \in Jobs : BackendProvision(j)
    \/ \E j \in Jobs, n \in 1..MaxFiles : BackendDiscover(j, n)

Next ==
    \/ Caller
    \/ submit_and_download_resume
    \/ Monitor
    \/ Drain
    \/ Fetch
    \/ Backend

Spec == Init /\ [][Next]_vars

\* Submissions whose transforms may complete with failed files.
PartialNext ==
    \/ Next
    \/ PartialEnd

PartialSpec == Init /\ [][PartialNext]_vars

\* One submission against a backend that stages what its statuses carry.
StatusNext ==
    \/ FirstCall
    \/ submit_and_download_resume
    \/ Monitor
    \/ Drain
    \/ Fetch
    \/ Backend
    \/ Staging

StatusSpec == StatusInit /\ [][StatusNext]_vars

\* The event loop runs every task that is ready, every timer fires, and every
\* call to a collaborator returns or raises.
FairSpec ==
    /\ Spec
    /\ WF_vars(Monitor)
    /\ WF_vars(Drain)
    /\ WF_vars(Fetch)
    /\ WF_vars(submit_and_download_resume)

\* ----------------------------------------------- compute_hash on its own

\* Two requests are given.
HashInit ==
    /\ Constructed
    /\ jobInfo = [j \in Jobs |-> JobInfo(TRUE)]
    /\ input \in Requests \X Requests
    /\ output = <<>>

\* compute_hash is taken of each.
compute_hash_pair ==
    /\ output = <<>>
    /\ output' = <<compute_hash(input[1]), compute_hash(input[2])>>
    /\ UNCHANGED <<objVars, envVars, callVars, monPc, monVars, drainVars, logVars,
                   compilable, input>>

HashSpec == HashInit /\ [][compute_hash_pair]_vars

\* ------------------------------------------------ QueryCache on its own

\* The lists of results a caller may record for job j.
FileLists(j) == SeqsUpTo({DownloadedPath(j, o) : o \in Objects}, MaxObjects)

\* An empty cache; input keeps, for every hash, the list last recorded for it.
CacheInit ==
    /\ Constructed
    /\ jobInfo = [j \in Jobs |-> JobInfo(TRUE)]
    /\ input = [h \in Hashes |-> <<>>]
    /\ output = <<>>

\* cache_transform(request, status, data_dir, file_uris) for a completed job j.
cache_transform_call(req, j, file_uris) ==
    /\ cache' = cache_transform(cache, compute_hash(req),
                                [get_transform_status(j) EXCEPT !.status = "complete"],
                                j, file_uris)
    /\ input' = [input EXCEPT ![compute_hash(req)] = <<file_uris>>]
    /\ output' = <<>>
    /\ UNCHANGED <<objVars, jobPhase, bucket, jobInfo, callVars, monPc, monVars, drainVars,
                   logVars, compilable>>

\* get_transform_by_hash(request.compute_hash())
get_transform_by_hash_call(req) ==
    /\ output' = <<compute_hash(req), get_transform_by_hash(cache, compute_hash(req))>>
    /\ UNCHANGED <<objVars, envVars, callVars, monPc, monVars, drainVars, logVars,
                   compilable, input>>

CacheNext ==
    \/ \E f \in ResultFormats, j \in Jobs :
          \E file_uris \in FileLists(j) : cache_transform_call(transform_request(f), j, file_uris)
    \/ \E f \in ResultFormats : get_transform_by_hash_call(transform_request(f))

CacheSpec == CacheInit /\ [][CacheNext]_vars

\* ------------------------------------- populate_transform_request on its own

Schemes == {"rucio", "root"}
Datasets == {"foo.bar", "baz.bar"}
FileNames == {"a.root", "b.root"}

\* DataSetIdentifier.did (lines 38-40): f"{scheme}://{dataset}"
did(scheme, dataset) == <<scheme, "://", dataset>>

\* The dataset objects: DataSetIdentifier(scheme, dataset), and
\* FileListDataset(files) for one file name or for a list of them, which may
\* be empty.  An object of one class has the attributes of the other unset.
DataSetIdentifiers ==
    [class : {"DataSetIdentifier"}, scheme : Schemes, dataset : Datasets, files : {<<>>}]
\* The argument of FileListDataset: a str (its characters held in value[1])
\* or a list of str.
FileListArguments ==
    {[type |-> "str", value |-> <<f>>] : f \in FileNames}
        \cup {[type |-> "list", value |-> l] : l \in SeqsUpTo(FileNames, MaxObjects)}

\* FileListDataset.__init__ (lines 53-57): a single name becomes a list of one.
FileListDataset(files) ==
    [class |-> "FileListDataset", scheme |-> "", dataset |-> "",
     files |-> IF files.type = "str" THEN <<files.value[1]>> ELSE files.value]

DatasetObjects == DataSetIdentifiers \cup {FileListDataset(f) : f \in FileListArguments}

\* A field of the request that holds None.
Unset == <<None>>

\* The did and file_list of a request nobody has populated (lines 129-135).
UnpopulatedRequest == [did |-> Unset, file_list |-> Unset]

\* A file list that leaves the did of the request as it was.
populate_transform_request_keeps_did(ds, req) ==
    IF ds.class = "DataSetIdentifier"
      THEN [did |-> did(ds.scheme, ds.dataset), file_list |-> Unset]
      ELSE [req EXCEPT !.file_list = ds.files]

\* DataSetIdentifier.populate_transform_request (lines 42-44) and
\* FileListDataset.populate_transform_request (lines 59-61).
populate_transform_request(ds, req) ==
    IF ds.class = "DataSetIdentifier"
      THEN [did |-> did(ds.scheme, ds.dataset), file_list |-> Unset]
      ELSE [did |-> Unset, file_list |-> ds.files]

\* input is the sequence of dataset objects that have populated the request,
\* output the request.
DidInit ==
    /\ Constructed
    /\ jobInfo = [j \in Jobs |-> JobInfo(TRUE)]
    /\ input = <<>>
    /\ output = UnpopulatedRequest

populate_call(ds) ==
    /\ Len(input) < MaxPopulates
    /\ input' = Append(input, ds)
    /\ output' = populate_transform_request(ds, output)
    /\ UNCHANGED <<objVars, envVars, callVars, monPc, monVars, drainVars, logVars,
                   compilable>>

DidNext == \E ds \in DatasetObjects : populate_call(ds)

DidSpec == DidInit /\ [][DidNext]_vars

\* ------------------------------------------------ generate_qastle on its own

\* The classes that define generate_qastle.
DatasetClasses == {"ServiceXDatasetSourceBase", "ServiceXFuncADLUproot"}

\* _execute_locally (line 64)
execute_locally == {"ResultPandasDF", "ResultAwkwardArray"}

\* The names of the top-level call of a query.
Terminals == execute_locally \cup {"ResultParquet", "ResultTTree"}

ColumnNames == {"col1", "col2"}

\* The streams a terminal call wraps; has_tuple tells whether the stream
\* builds a tuple.
Streams == {[name |-> "SelectValue", tuple |-> FALSE], [name |-> "SelectTuple", tuple |-> TRUE]}
has_tuple(stream) == stream.tuple

\* The query: a call of a terminal on a stream and an ast.List of column names.
Queries ==
    [class : DatasetClasses, func : Terminals, stream : Streams,
     col_names : SeqsUpTo(ColumnNames, MaxColumns)]

\* What `self._ds.first_supported_datatype([...])` and `self._format_map`
\* (lines 338-340) can come to: no line of the repository assigns either
\* attribute, so the lookup raises; a subclass that had them would name one
\* of the two methods, or no supported format.
Negotiations ==
    {"AttributeError", "get_data_parquet_async", "get_data_rootfiles_async", "unsupported"}

\* The nodes generate_qastle hands to the serializer.
NoValues == <<>>
StreamNode(stream) ==
    [node |-> "Stream", func |-> "", stream |-> stream, keys |-> <<>>, values |-> NoValues,
     extra |-> <<>>]
CallNode(func, stream, col_names, extra) ==
    [node |-> "Call", func |-> func, stream |-> stream, keys |-> col_names,
     values |-> NoValues, extra |-> extra]
SelectNode(stream, keys, values) ==
    [node |-> "Select", func |-> "Select", stream |-> stream, keys |-> keys,
     values |-> values, extra |-> <<>>]

\* encode_as_tuple_reference (lines 377-386): x[idx] for every name, idx
\* counting from 0; encode_as_single_reference (lines 388-392): x.
encode_as_tuple_reference(c_names) ==
    [i \in 1..Len(c_names) |-> [ref |-> "Subscript", idx |-> i - 1]]
encode_as_single_reference == <<[ref |-> "Name", idx |-> 0]>>

RECURSIVE Join(_)
Join(seqs) == IF seqs = <<>> THEN <<>> ELSE Head(seqs) \o Join(Tail(seqs))

\* python_ast_to_text_ast: the text of a node, as a sequence of tokens.
StreamText(stream) == <<"(", stream.name, ")">>
ListText(items) == <<"(", "list">> \o Join(items) \o <<")">>
StrText(strs) == [i \in 1..Len(strs) |-> <<"'", strs[i], "'">>]
RefText(v) ==
    IF v.ref = "Subscript" THEN <<"(", "subscript", "x", ToString(v.idx), ")">> ELSE <<"x">>
python_ast_to_text_ast(n) ==
    CASE n.node = "Stream" -> StreamText(n.stream)
      [] n.node = "Call" ->
            <<"(", "call", n.func>> \o StreamText(n.stream) \o ListText(StrText(n.keys))
                \o Join(StrText(n.extra)) \o <<")">>
      [] OTHER ->
            <<"(", "Select">> \o StreamText(n.stream)
                \o <<"(", "lambda", "(", "list", "x", ")", "(", "dict">>
                \o ListText(StrText(n.keys))
                \o ListText([i \in 1..Len(n.values) |-> RefText(n.values[i])])
                \o <<")", ")", ")">>

Compiled(text) == [kind |-> "text", text |-> text]
CompilationError(kind) == [kind |-> kind, text |-> <<>>]

\* A compiler that takes one column name for the whole value, always.
ColumnValues_single_always(stream, col_names) ==
    IF Len(col_names) = 1 THEN encode_as_single_reference
    ELSE encode_as_tuple_reference(col_names)

\* The values of the dictionary (lines 396-406).
ColumnValues(stream, col_names) ==
    IF Len(col_names) = 1
      THEN IF has_tuple(stream) THEN encode_as_tuple_reference(col_names)
           ELSE encode_as_single_reference
      ELSE encode_as_tuple_reference(col_names)

\* A compiler that puts a Select on top of a stream without column names.
SelectNeeded_always(col_names) == TRUE

\* `if len(col_names) > 0` (line 394)
SelectNeeded(col_names) == Len(col_names) > 0

\* ServiceXDatasetSourceBase.generate_qastle (lines 321-419), for the
\* outcome neg of the format negotiation.
generate_qastle_base(a, neg) ==
    IF a.func \in execute_locally
      THEN CASE neg = "AttributeError" -> CompilationError("AttributeError")
             [] neg = "unsupported" -> CompilationError("AssertionError")
             [] neg = "get_data_rootfiles_async" ->
                   IF a.col_names = <<>>
                     THEN Compiled(python_ast_to_text_ast(StreamNode(a.stream)))
                     ELSE Compiled(python_ast_to_text_ast(
                              CallNode("ResultTTree", a.stream, a.col_names,
                                       <<"treeme", "junk.root">>)))
             [] OTHER -> Compiled(python_ast_to_text_ast(StreamNode(a.stream)))
    ELSE IF a.func = "ResultParquet"
      THEN IF SelectNeeded(a.col_names)
             THEN Compiled(python_ast_to_text_ast(
                      SelectNode(a.stream, a.col_names, ColumnValues(a.stream, a.col_names))))
             ELSE Compiled(python_ast_to_text_ast(StreamNode(a.stream)))
    ELSE Compiled(python_ast_to_text_ast(CallNode(a.func, a.stream, a.col_names, <<>>)))

\* ServiceXFuncADLUproot.generate_qastle (servicex_func_adl_uproot.py, lines
\* 54-68): the first argument of the top call, whatever the call is.
generate_qastle_uproot(a) == Compiled(python_ast_to_text_ast(StreamNode(a.stream)))

generate_qastle(a, neg) ==
    IF a.class = "ServiceXFuncADLUproot" THEN generate_qastle_uproot(a)
    ELSE generate_qastle_base(a, neg)

\* input is the query, output what generate_qastle made of it.
CompileInit ==
    /\ Constructed
    /\ jobInfo = [j \in Jobs |-> JobInfo(TRUE)]
    /\ input \in Queries
    /\ output = <<>>

generate_qastle_call(neg) ==
    /\ output = <<>>
    /\ output' = <<generate_qastle(input, neg)>>
    /\ UNCHANGED <<objVars, envVars, callVars, monPc, monVars, drainVars, logVars,
                   compilable, input>>

CompileNext == \E neg \in Negotiations : generate_qastle_call(neg)

CompileSpec == CompileInit /\ [][CompileNext]_vars

\* --------------------------------------------- clone_with_new_ast on its own

\* The attributes of a dataset object that the clone is followed through: the
\* QueryCache, three plain attributes and the query AST.
Attributes == {"cache", "title", "result_format", "download_path", "_q_ast"}

\* A dataset object holds a reference for every attribute; a reference names
\* the object that created the value and the attribute it was created for.
\* input is the sequence of dataset objects, the first being the original;
\* output is the heap, the value behind every reference.  Every value is a
\* sequence of strings: the hashes recorded, for the cache, the nodes from
\* the top call down, for the AST.
NewObject(n) == [attr \in Attributes |-> <<n, attr>>]
OriginalValues ==
    [attr \in Attributes |->
        CASE attr = "cache" -> <<>>
          [] attr = "title" -> <<"ServiceX Client">>
          [] attr = "_q_ast" -> <<"EventDataset">>
          [] OTHER -> <<None>>]

\* A clone whose every attribute is deep-copied.
SharedByReference_never(attr) == FALSE

\* `if type(value) == QueryCache` (line 114), the cache being a QueryCache.
SharedByReference(attr) == attr = "cache"

\* clone_with_new_ast (lines 101-122), the clone being object n: the
\* references of the clone, and the heap with the values created for it.
CloneReferences(self, n) ==
    [attr \in Attributes |-> IF SharedByReference(attr) THEN self[attr] ELSE <<n, attr>>]
CloneHeap(self, n, new_ast, heap) ==
    [ref \in DOMAIN heap \cup {<<n, attr>> : attr \in {a \in Attributes : ~SharedByReference(a)}} |->
        IF ref \in DOMAIN heap THEN heap[ref]
        ELSE IF ref[2] = "_q_ast" THEN new_ast
        ELSE heap[self[ref[2]]]]

CloneInit ==
    /\ Constructed
    /\ jobInfo = [j \in Jobs |-> JobInfo(TRUE)]
    /\ input = <<NewObject(1)>>
    /\ output = [ref \in {<<1, attr>> : attr \in Attributes} |-> OriginalValues[ref[2]]]

CloneFrame ==
    UNCHANGED <<objVars, envVars, callVars, monPc, monVars, drainVars, logVars, compilable>>

\* ObjectStream.Select / Where on object o: a new call node over the query
\* AST of o, handed to clone_with_new_ast.
clone_with_new_ast(o, top) ==
    /\ Len(input) <= MaxClones
    /\ LET n == Len(input) + 1
           new_ast == <<top>> \o output[input[o]["_q_ast"]]
       IN  /\ input' = Append(input, CloneReferences(input[o], n))
           /\ output' = CloneHeap(input[o], n, new_ast, output)
    /\ CloneFrame

\* An attribute of a clone other than the cache is changed in place.
mutate_clone(o, attr, value) ==
    /\ o > 1
    /\ attr # "cache"
    /\ output' = [output EXCEPT ![input[o][attr]] = value]
    /\ UNCHANGED input
    /\ CloneFrame

\* A record for hash h is written through the cache of object o.
cache_through(o, h) ==
    /\ h \notin Range(output[input[o]["cache"]])
    /\ output' = [output EXCEPT ![input[o]["cache"]] = Append(@, h)]
    /\ UNCHANGED input
    /\ CloneFrame

\* A lookup of h through the cache of an object.
found_through(obj, h) == h \in Range(output[obj["cache"]])

CloneNext ==
    \/ \E o \in 1..Len(input), top \in {"Select", "Where"} : clone_with_new_ast(o, top)
    \/ \E o \in 1..Len(input), attr \in Attributes, value \in {<<"Test submission">>, <<"parquet">>} :
            mutate_clone(o, attr, value)
    \/ \E o \in 1..Len(input), h \in ResultFormats : cache_through(o, h)

CloneSpec == CloneInit /\ [][CloneNext]_vars

\* ------------------------------------------- ServiceXClient.__init__ on its own

\* The arguments of the constructor: a url and a backend name, each None, the
\* empty string or a name; and the endpoints of the configuration that
\* Configuration.read returned.
Urls == {None, "", "https://servicex.example"}
Backends == {None, "", "production", "staging"}
Endpoints == {"production", "staging"}
ClientArguments == [backend : Backends, url : Urls, endpoints : SUBSET Endpoints]

\* Python's bool() of an argument: None and the empty string are false.
bool(v) == v \notin {None, ""}

\* What the constructor leaves: how it ended, the adapter it assigned to
\* self.servicex (its url, or None) and the requests sent.
ClientResult(how, servicex, requests) ==
    [outcome |-> how, servicex |-> servicex, requests |-> requests]

\* A constructor that takes every backend name for a configured endpoint.
EndpointKnown_always(backend, endpoints) == TRUE

\* `if backend not in self.endpoints` (line 51)
EndpointKnown(backend, endpoints) == backend \in endpoints

\* ServiceXAdapter.get_code_generators (servicex_adapter.py lines 49-51) as
\* called at line 57: one GET, whose reply is read or whose failure ends
\* the constructor.
get_code_generators(url, reply) ==
    ClientResult(IF reply = "ok" THEN "constructed" ELSE "RequestError", url,
                 <<"GET", url, "/multiple-codegen-list">>)

\* ServiceXClient.__init__ (lines 41-57).  With a configured backend the
\* adapter is called with a refresh_token keyword that ServiceXAdapter.__init__
\* (servicex_adapter.py lines 39-40) does not take: the call raises TypeError.
ServiceXClient(backend, url, endpoints, reply) ==
    IF bool(url) = bool(backend) THEN ClientResult("ValueError", None, <<>>)
    ELSE IF bool(url) THEN get_code_generators(url, reply)
    ELSE IF ~EndpointKnown(backend, endpoints) THEN ClientResult("ValueError", None, <<>>)
    ELSE ClientResult("TypeError", None, <<>>)

ClientInit ==
    /\ Constructed
    /\ jobInfo = [j \in Jobs |-> JobInfo(TRUE)]
    /\ input \in ClientArguments
    /\ output = <<>>

ServiceXClient_call(reply) ==
    /\ output = <<>>
    /\ output' = <<ServiceXClient(input.backend, input.url, input.endpoints, reply)>>
    /\ UNCHANGED <<objVars, envVars, callVars, monPc, monVars, drainVars, logVars,
                   compilable, input>>

ClientNext == \E reply \in {"ok", "raise"} : ServiceXClient_call(reply)

ClientSpec == ClientInit /\ [][ClientNext]_vars

\* ------------------------------------------------------------- claims

CallEnded == callPc = "ended"
PollRaised == monPc = "failed"
DrainCancelled == drainPc = "cancelled"
NoDuplicates(s) == \A i, j \in 1..Len(s) : i # j => s[i] # s[j]

\* C1: a call that finds a record for the hash of its request in the cache
\* returns that record's file list and performs no submit, no status poll,
\* no bucket listing and no fetch.
C1_CacheHitReturnsRecordWithoutNetwork ==
    (CallEnded /\ call.hit) =>
        /\ outcome = ReturnedList(cache[call.hash].file_uris)
        /\ net = {}

C1_Witness == CallEnded /\ call.hit /\ Len(outcome.files) = 2 /\ net = {}

\* C2: a call made after a call of the same request completed successfully
\* performs no submission of its own (the successful call made the only one)
\* and returns the list that call returned, in the same order.
C2_SecondCallReturnsFirstList ==
    (CallEnded /\ call.prior) =>
        /\ ~call.submitted
        /\ outcome = ReturnedList(returned[call.hash][1])

C2_Witness ==
    /\ CallEnded /\ call.prior /\ ~call.submitted
    /\ Len(outcome.files) = 2 /\ outcome.files = returned[call.hash][1]

\* C3: a submission one of whose status polls raised writes no cache record.
C3_PollErrorWritesNoRecord == PollRaised => ~call.wrote

\* C4: once a poll has raised and the done callback has handled the monitor's
\* failure, the drain starts no bucket listing and does not leave its loop
\* through the 'complete' exit.
C4_NoListingAfterMonitorFailure ==
    [][PollRaised =>
         /\ ~(drainPc # "listing" /\ drainPc' = "listing")
         /\ ~(drainPc \in {"sleeping", "listing"} /\ drainPc' \in {"gather", "returned"})]_vars

C4_Witness == PollRaised /\ DrainCancelled /\ "list" \in net

\* C5: a call one of whose status polls raised ends with the polling error.
C5_PollErrorSurfaces == (CallEnded /\ PollRaised) => outcome.kind = "poll_error"

\* C6: a call whose drain was cancelled ends with an outcome that is no
\* returned list (not even an empty one) and is not the polling error.
C6_AbortedOutcomeIsDistinct ==
    (CallEnded /\ DrainCancelled) =>
        /\ outcome.kind # "list"
        /\ outcome.kind # "poll_error"
        /\ outcome.kind \in {"aborted", "print_error"}

C6_Witness ==
    /\ CallEnded /\ DrainCancelled /\ outcome = ReturnedNone
    /\ downloaded_file_paths = <<>>

\* C7: when a call has ended after its drain was cancelled, none of the
\* drain's fetch tasks is still running.
C7_NoFetchOutlivesCancelledCall ==
    (CallEnded /\ DrainCancelled) =>
        \A i \in 1..Len(download_tasks) : download_tasks[i].st # "running"

\* C8: once a poll of the running submission has reported the failed phase,
\* the call eventually ends.
C8_FailedPhaseEndsCall ==
    (callPc = "awaiting" /\ current_status.request_id = request_id
                         /\ current_status.status = "failed")
        ~> CallEnded

\* C9: the list a successful submission returns and records holds the
\* results in the order in which the drain first saw their objects.
C9_ReturnedInFirstSeenOrder ==
    (CallEnded /\ call.wrote) =>
        /\ outcome.files = [i \in 1..Len(download_tasks) |-> FetchResult(download_tasks[i])]
        /\ cache[call.hash].file_uris = outcome.files

\* C10: the drain launches at most one fetch task per object name, and the
\* list it builds names no object twice.
C10_OneFetchPerObject ==
    /\ \A i, j \in 1..Len(download_tasks) :
         i # j => download_tasks[i].name # download_tasks[j].name
    /\ NoDuplicates(downloaded_file_paths)
    /\ (CallEnded /\ call.wrote) => NoDuplicates(outcome.files)

C10_Witness ==
    /\ relisted /\ CallEnded /\ call.wrote
    /\ Len(download_tasks) = 2 /\ Len(outcome.files) = 2

\* C11: a submission whose transform completed with failed files, and none of
\* whose fetches raised, returns the list of fetched files and records it; a
\* later call of the same request is answered from that record, without a
\* submission of its own.
C11_PartialFailureIsRecorded ==
    /\ (CallEnded /\ call.submitted /\ monPc = "done" /\ current_status.files_failed > 0) =>
          \/ outcome = Raised("fetch_error")
          \/ /\ outcome = ReturnedList(downloaded_file_paths)
             /\ call.wrote
             /\ cache[call.hash].file_uris = outcome.files
    /\ (CallEnded /\ call.looked /\ cache[call.hash].files_failed > 0 /\ ~call.wrote) =>
          /\ ~call.submitted
          /\ net = {}
          /\ outcome = ReturnedList(cache[call.hash].file_uris)

C11_Witness ==
    /\ CallEnded /\ call.hit /\ ~call.submitted
    /\ cache[call.hash].files_failed > 0
    /\ Len(outcome.files) = 1

\* C12: a call that ended after one of its fetch tasks raised returned no file
\* list and wrote no cache record; unless the drain was cancelled first, the
\* call ended with the error of the fetch.
C12_FetchFailureFailsCall ==
    (CallEnded /\ \E i \in 1..Len(download_tasks) : download_tasks[i].st = "failed") =>
        /\ outcome.kind # "list"
        /\ ~call.wrote
        /\ cache[call.hash] = NoRecord
        /\ ~DrainCancelled => outcome = Raised("fetch_error")

C12_Witness ==
    /\ CallEnded /\ outcome = Raised("fetch_error")
    /\ \E i \in 1..Len(download_tasks) : download_tasks[i].st = "failed"
    /\ Len(downloaded_file_paths) = 1
    /\ cache[call.hash] = NoRecord

\* C13: a call whose submit raised ended with that error; it started neither
\* the monitor nor the drain nor a fetch, made the one submit and no other
\* network operation, got no job accepted in a second attempt, and wrote no
\* cache record.
C13_SubmitFailureEndsCall ==
    (CallEnded /\ outcome.kind = "submit_error") =>
        /\ call.submitted
        /\ monPc = "idle" /\ drainPc = "idle" /\ download_tasks = <<>>
        /\ net = {"submit"}
        /\ Cardinality({j \in Jobs : jobPhase[j] # "unsubmitted"}) < nCalls
        /\ ~call.wrote
        /\ cache[call.hash] = NoRecord

C13_Witness ==
    /\ CallEnded /\ outcome = Raised("submit_error") /\ nCalls = 2
    /\ \E j \in Jobs : jobPhase[j] = "complete"
    /\ cache[call.hash] = NoRecord

\* C14: a call made while no result format is set, or for a query that does
\* not compile, ends with the error of building the request, having made no
\* cache lookup, no submit, no status poll, no bucket listing and no fetch,
\* and having started no task.
C14_BuildFailureBeforeAnything ==
    (CallEnded /\ (result_format = None \/ ~compilable)) =>
        /\ outcome.kind \in {"build_error", "compile_error"}
        /\ ~call.looked /\ ~call.hit /\ ~call.submitted
        /\ net = {}
        /\ monPc = "idle" /\ drainPc = "idle"

C14_Witness ==
    /\ CallEnded /\ outcome = Raised("compile_error")
    /\ result_format # None /\ ~call.looked /\ net = {}

\* C15: every step of download_files and of a fetch task leaves
\* current_status, minio and download_path as they are, and current_status
\* changes only in a step of transform_status_listener.
C15_OnlyMonitorWritesStatus ==
    [][/\ (Drain \/ Fetch) => UNCHANGED <<current_status, minio, download_path>>
       /\ current_status' # current_status => Monitor]_vars

C15_Witness ==
    /\ current_status.status = "running" /\ minio # NoJob /\ download_path # NoJob
    /\ drainPc = "sleeping"
    /\ Len(download_tasks) = 2
    /\ Len(downloaded_file_paths) = 1

\* C16: while a submission's drain waits for the answer of list_bucket, the
\* adapter it asked is bound to the bucket named by that submission's job id.
C16_ClientBoundToSubmissionBucket ==
    (callPc = "awaiting" /\ drainPc = "listing") => minio = request_id

\* C17: a poll that returns a status without the storage parameters builds
\* no adapter and leaves the monitor polling for them, and the drain requests
\* no bucket listing while the last polled status lacks them.
C17_ClientAwaitsStorageParameters ==
    [][/\ (current_status' # current_status /\ ~current_status'.storage) =>
            (minio' = NoJob /\ monPc' # "failed")
       /\ (drainPc # "listing" /\ drainPc' = "listing") => current_status.storage]_vars

\* C18: within a submission the total file count is handed to the progress
\* bars at most once: by the first poll whose status carries a count, with
\* that count, and by no later poll whatever count it carries.
C18_TotalPublishedOnce ==
    /\ Len(progress_totals) <= 1
    /\ progress_totals # <<>> =>
          (progress_totals = <<final_count>> /\ final_count <= current_status.files)
    /\ current_status.files # 0 => progress_totals # <<>>

C18_Witness ==
    /\ progress_totals = <<1>>
    /\ current_status.files = 2
    /\ monPc = "done"

\* C19: compute_hash gives two requests that differ in nothing but the title
\* the same value, and two requests that differ in did or in the query text
\* different values.
C19_HashIgnoresTitleOnly ==
    output # <<>> =>
        /\ [input[1] EXCEPT !.title = input[2].title] = input[2] => output[1] = output[2]
        /\ (input[1].did # input[2].did \/ input[1].selection # input[2].selection) =>
              output[1] # output[2]

C19_Witness ==
    /\ output # <<>>
    /\ input[1].title # input[2].title
    /\ [input[1] EXCEPT !.title = input[2].title] = input[2]
    /\ output[1] = output[2]

\* C20: a lookup by the hash of a request answers absent while nothing was
\* recorded for that hash, and afterwards answers a record, taken for a hit,
\* whose file list is the list last recorded for it.
C20_LookupReturnsWhatWasRecorded ==
    output # <<>> =>
        IF input[output[1]] = <<>>
          THEN output[2] = NoRecord /\ ~CachedRecordFound(output[2])
          ELSE /\ CachedRecordFound(output[2])
               /\ output[2].file_uris = input[output[1]][1]

C20_Witness ==
    /\ output # <<>>
    /\ input[output[1]] # <<>>
    /\ Len(output[2].file_uris) = 2
    /\ output[2].file_uris = input[output[1]][1]

\* C21: once a request has been populated, exactly one of its did and
\* file_list holds a value, and it is the value of the dataset object that
\* populated it last.
C21_ExactlyOneOfDidAndFileList ==
    input # <<>> =>
        LET last == input[Len(input)]
        IN /\ (output.did = Unset) # (output.file_list = Unset)
           /\ last.class = "DataSetIdentifier" =>
                 (output.did = did(last.scheme, last.dataset) /\ output.file_list = Unset)
           /\ last.class = "FileListDataset" =>
                 (output.file_list = last.files /\ output.did = Unset)

C21_Witness ==
    /\ Len(input) = 2
    /\ input[1].class = "DataSetIdentifier"
    /\ input[2].class = "FileListDataset"
    /\ output.did = Unset
    /\ output.file_list = <<"a.root">>

\* C22: while a call awaits its tasks, current_status is never replaced once
\* it shows complete, and a status that replaces another carries no smaller
\* total and no smaller failed-file count.
C22_StatusNeverRegresses ==
    [][(/\ callPc = "awaiting" /\ callPc' = "awaiting"
        /\ current_status # NoStatus
        /\ current_status' # current_status) =>
          /\ current_status.status # "complete"
          /\ current_status'.files >= current_status.files
          /\ current_status'.files_failed >= current_status.files_failed]_vars

\* C23: when download_files has returned, every fetch task it launched is
\* done, none is in flight, and the list holds exactly one entry for every
\* object name of the seen set.
C23_ReturnedListIsJoined ==
    drainPc = "returned" =>
        /\ \A i \in 1..Len(download_tasks) : download_tasks[i].st = "done"
        /\ {download_tasks[i].name : i \in 1..Len(download_tasks)} = files_seen
        /\ Len(downloaded_file_paths) = Cardinality(files_seen)
        /\ Range(downloaded_file_paths) =
              {FetchResult(download_tasks[i]) : i \in 1..Len(download_tasks)}

C23_Witness ==
    /\ drainPc = "returned"
    /\ Cardinality(files_seen) = 2
    /\ Len(downloaded_file_paths) = 2
    /\ relisted

\* C24: a call that wrote a cache record wrote it when its monitor had
\* observed complete for the job of that call, and that job was complete.
C24_RecordOnlyAfterComplete ==
    (CallEnded /\ call.wrote) =>
        /\ jobPhase[request_id] = "complete"
        /\ cache[call.hash].request_id = request_id

\* C25: when a call has returned a file list, its status monitor has ended
\* (or, on a cache hit, was never started).
C25_MonitorEndedAtReturn ==
    (CallEnded /\ outcome.kind = "list") => monPc \in {"idle", "done"}

\* The number of Select tokens of a text.
SelectCount(text) == Cardinality({i \in 1..Len(text) : text[i] = "Select"})

\* The query is a call of func on the class that inherits generate_qastle
\* from ServiceXDatasetSourceBase, and it has been compiled.
CompiledBase(func) ==
    /\ input \in Queries
    /\ output # <<>>
    /\ input.class = "ServiceXDatasetSourceBase"
    /\ input.func = func

\* C26: ServiceXDatasetSourceBase.generate_qastle on a ResultParquet call
\* with at least one column name, over a stream that builds a tuple or with
\* exactly one name, gives the text of exactly one Select over the stream,
\* without the terminal, whose dictionary maps the i-th name to index i of
\* the tuple when the stream builds a tuple and the single name to the
\* whole value when it does not.
C26_ParquetColumnsBecomeOneSelect ==
    (CompiledBase("ResultParquet") /\ Len(input.col_names) > 0
        /\ (has_tuple(input.stream) \/ Len(input.col_names) = 1)) =>
        LET names == input.col_names
            values == [i \in 1..Len(names) |->
                          IF has_tuple(input.stream) THEN [ref |-> "Subscript", idx |-> i - 1]
                          ELSE [ref |-> "Name", idx |-> 0]]
        IN  /\ output[1] = Compiled(python_ast_to_text_ast(SelectNode(input.stream, names, values)))
            /\ SelectCount(output[1].text) = 1
            /\ \A i \in 1..Len(output[1].text) : output[1].text[i] # "ResultParquet"

C26_Witness ==
    /\ CompiledBase("ResultParquet")
    /\ Len(input.col_names) = 1
    /\ has_tuple(input.stream)
    /\ output[1].kind = "text"

\* C27: ResultPandasDF over a stream that builds no tuple, with the one
\* column name col1, compiles to the text of a Select of the whole value
\* under the key col1.
C27_DataframeColumnBecomesSelect ==
    (CompiledBase("ResultPandasDF") /\ ~has_tuple(input.stream)
        /\ input.col_names = <<"col1">>) =>
        output[1] = Compiled(python_ast_to_text_ast(
                        SelectNode(input.stream, <<"col1">>, <<[ref |-> "Name", idx |-> 0]>>)))

\* C28: a ResultParquet call with no column name compiles to the text of
\* its stream: no terminal and no Select.
C28_ParquetWithoutColumnsIsStream ==
    (input \in Queries /\ output # <<>> /\ input.func = "ResultParquet"
        /\ input.col_names = <<>>) =>
        /\ output[1] = Compiled(StreamText(input.stream))
        /\ SelectCount(output[1].text) = 0

C28_Witness ==
    /\ CompiledBase("ResultParquet")
    /\ input.col_names = <<>>
    /\ output[1].kind = "text"

\* C29: a terminal call with more than one column name over a stream that
\* builds no tuple ends in an error and gives no text.
C29_ManyNamesOnValueStreamFail ==
    (input \in Queries /\ output # <<>> /\ Len(input.col_names) > 1
        /\ ~has_tuple(input.stream)) =>
        /\ output[1].kind # "text"
        /\ output[1].text = <<>>

\* C30: for every class, a terminal call other than ResultPandasDF,
\* ResultAwkwardArray and ResultParquet compiles to the text of the whole
\* call, terminal included.
C30_OtherTerminalPassedThrough ==
    (input \in Queries /\ output # <<>>
        /\ input.func \notin execute_locally \cup {"ResultParquet"}) =>
        output[1] = Compiled(python_ast_to_text_ast(
                        CallNode(input.func, input.stream, input.col_names, <<>>)))

\* C31: every clone looks up through the cache of the original, so a hash
\* recorded through one object is found through every other; no other
\* attribute of a clone refers to a value another object refers to, and
\* the attributes of the original other than the cache, its query AST among
\* them, keep the values they had, whatever is changed in the clones.
C31_CloneSharesCacheOnly ==
    (input # <<>> /\ DOMAIN input[1] = Attributes) =>
        /\ \A o \in 1..Len(input), h \in ResultFormats :
              found_through(input[o], h) = found_through(input[1], h)
        /\ \A o, p \in 1..Len(input), attr \in Attributes \ {"cache"} :
              o # p => input[o][attr] # input[p][attr]
        /\ \A attr \in Attributes \ {"cache"} :
              output[input[1][attr]] = OriginalValues[attr]

C31_Witness ==
    /\ Len(input) = 2
    /\ DOMAIN input[1] = Attributes
    /\ found_through(input[1], "parquet")
    /\ output[input[2]["title"]] = <<"Test submission">>
    /\ output[input[2]["_q_ast"]] = <<"parquet">>

\* C32: when download_files has returned, in signed-URL mode every fetch
\* task it launched requested a signed URL, none downloaded, and every
\* entry of the list is a signed URL; in download mode every task
\* downloaded, none requested a URL, and every entry is a path under the
\* download directory of the job of the submission.
C32_ModeDecidesFetchAndEntries ==
    (callPc = "awaiting" /\ drainPc = "returned") =>
        IF call.signed
          THEN /\ \A i \in 1..Len(download_tasks) : download_tasks[i].fn = "get_signed_url"
               /\ \A i \in 1..Len(downloaded_file_paths) : downloaded_file_paths[i][1] = "url"
          ELSE /\ \A i \in 1..Len(download_tasks) : download_tasks[i].fn = "download_file"
               /\ \A i \in 1..Len(downloaded_file_paths) :
                     /\ downloaded_file_paths[i][1] = "path"
                     /\ downloaded_file_paths[i][2] = cache_path_for_transform(
                                                          get_transform_status(request_id))

\* C33: when the drain has left its loop on the complete status of the
\* submission's own job, every object of that job's bucket (which no longer
\* changes once the job is complete) is in the seen set.
C33_NoObjectMissedAtExit ==
    (/\ callPc = "awaiting"
     /\ drainPc \in {"gather", "returned"}
     /\ current_status.request_id = request_id
     /\ current_status.status = "complete") =>
        bucket[request_id] \subseteq files_seen

\* C34: while a call awaits its tasks, the drain has left its loop only on a
\* complete status polled for the job of that call, it lists only through
\* the adapter of that job, and its fetch tasks exist only with the adapter
\* and the download directory of that job.
C34_NoStateOfEarlierSubmissionUsed ==
    (callPc = "awaiting") =>
        /\ (drainPc \in {"gather", "returned"}) =>
              (current_status.request_id = request_id /\ current_status.status = "complete")
        /\ (drainPc = "listing") => minio = request_id
        /\ (download_tasks # <<>>) => (minio = request_id /\ download_path = request_id)

\* C35: in the first submission through the dataset object, fetch tasks
\* exist only when the adapter exists and the download directory is set,
\* and the adapter never exists without the download directory.
C35_DownloadPathSetBeforeFetch ==
    (nCalls = 1) =>
        /\ (download_tasks # <<>>) => (minio # NoJob /\ download_path # NoJob)
        /\ (minio # NoJob) => download_path # NoJob

C35_Witness ==
    /\ nCalls = 1
    /\ minio = request_id
    /\ download_path = request_id
    /\ \E i \in 1..Len(download_tasks) : download_tasks[i].st = "running"
    /\ current_status.status = "running"

\* C36: under fair scheduling, a call that has submitted its request and
\* whose job is complete eventually ends with a returned file list and a
\* cache record for its request, unless one of its polls or one of its
\* fetches raises.
C36_CompleteJobEndsCallWithRecord ==
    (callPc = "awaiting" /\ jobPhase[request_id] = "complete")
        ~> \/ /\ CallEnded
               /\ outcome.kind = "list"
               /\ cache[call.hash] # NoRecord
           \/ PollRaised
           \/ \E i \in 1..Len(download_tasks) : download_tasks[i].st = "failed"

C36_Witness ==
    /\ CallEnded
    /\ call.submitted
    /\ request_id # NoJob
    /\ jobPhase[request_id] = "complete"
    /\ monPc = "done"
    /\ outcome.kind = "list"
    /\ Len(outcome.files) = 2
    /\ cache[call.hash].file_uris = outcome.files

\* C37: a client is constructed only when exactly one of url and backend is
\* given; with both or with neither, and with a backend that is no
\* configured endpoint, the constructor raises ValueError, and then no
\* adapter has been created and no request has been sent.
C37_ClientNeedsExactlyOneOfUrlAndBackend ==
    (input \in ClientArguments /\ output # <<>>) =>
        LET both == bool(input.url) /\ bool(input.backend)
            neither == ~bool(input.url) /\ ~bool(input.backend)
            unknown == ~bool(input.url) /\ bool(input.backend)
                          /\ input.backend \notin input.endpoints
        IN  /\ (output[1].outcome = "constructed") => (~both /\ ~neither)
            /\ (both \/ neither \/ unknown) =>
                  /\ output[1].outcome = "ValueError"
                  /\ output[1].servicex = None
                  /\ output[1].requests = <<>>

C37_Witness ==
    /\ input \in ClientArguments
    /\ output # <<>>
    /\ input.url = None
    /\ input.backend = "staging"
    /\ input.endpoints = {"production"}
    /\ output[1].outcome = "ValueError"

====
